---- MODULE Spec2Model ----
(***************************************************************************)
(* Model of the in-memory full-text index of src/src/index.rs: the Index   *)
(* struct, its mutating operations (clear, add_object, update, remove) and *)
(* the two-stage query path (get_key_score_list, search).                  *)
(*                                                                         *)
(* A Rust String is a sequence of one-character strings.  A serde_json     *)
(* Value is a record [kind, str, elems].  The tokenizer (crate::lp) and    *)
(* the fuzzy matcher (sublime_fuzzy) are not part of src/; they are        *)
(* modelled from their description in the specification.                   *)
(***************************************************************************)
EXTENDS Integers, Sequences, FiniteSets, Bags, TLC

VARIABLES index,      \* the Index struct (src/src/index.rs:11-18)
          call,       \* the last library call: [op, id, obj, query]
          ret,        \* what that call gave back: [status, found, docs]
          assigned,   \* history: every internal id ever handed out by add
          issued,     \* history: internal ids handed out since create/clear
          removed,    \* history: external ids removed and not added again
          fresh,      \* history: internal ids added and not since updated/removed
          updated     \* history: the last update, until the next mutation

vars == <<index, call, ret, assigned, issued, removed, fresh, updated>>

(***************************************************************************)
(* Bounds of the model.                                                    *)
(***************************************************************************)
MaxAdds == 2

(***************************************************************************)
(* Strings.                                                                *)
(***************************************************************************)
IsSpace(c) == c = " "

\* char::to_lowercase on the characters the model uses.
Lower(c) == IF c = "A" THEN "a" ELSE c

\* The order of characters (their code points): ' ' < 'A' < 'a' < ... < 'z'.
CharRank(c) ==
  CASE c = " " -> 0
    [] c = "A" -> 1
    [] c = "a" -> 2
    [] c = "b" -> 3
    [] c = "c" -> 4
    [] c = "d" -> 5
    [] c = "x" -> 6
    [] c = "y" -> 7
    [] OTHER   -> 8

RECURSIVE TrimStart(_)
TrimStart(s) ==
  IF s = <<>> THEN <<>>
  ELSE IF IsSpace(Head(s)) THEN TrimStart(Tail(s)) ELSE s

RECURSIVE TrimEnd(_)
TrimEnd(s) ==
  IF s = <<>> THEN <<>>
  ELSE IF IsSpace(s[Len(s)]) THEN TrimEnd(SubSeq(s, 1, Len(s) - 1)) ELSE s

\* str::trim
trim(s) == TrimEnd(TrimStart(s))

\* String order (lexicographic on characters), as used by sort_unstable.
RECURSIVE StrLess(_, _)
StrLess(a, b) ==
  IF a = <<>> THEN b # <<>>
  ELSE IF b = <<>> THEN FALSE
  ELSE IF Head(a) = Head(b) THEN StrLess(Tail(a), Tail(b))
  ELSE CharRank(Head(a)) < CharRank(Head(b))

Range(f) == {f[i] : i \in DOMAIN f}

\* v.sort_unstable(); v.dedup(): the distinct elements in increasing order.
RECURSIVE SortedOf(_)
SortedOf(S) ==
  IF S = {} THEN <<>>
  ELSE LET m == CHOOSE x \in S : \A y \in S \ {x} : StrLess(x, y)
       IN  <<m>> \o SortedOf(S \ {m})

sort_dedup(v) == SortedOf(Range(v))

(***************************************************************************)
(* Tokenizer (crate::lp): n-grams and normalized whole words of a text.    *)
(***************************************************************************)
GramSize == 2

RECURSIVE split_whitespace(_)
split_whitespace(s) ==
  LET t == TrimStart(s) IN
  IF t = <<>> THEN <<>>
  ELSE LET sp == {i \in 1..Len(t) : IsSpace(t[i])}
           e  == IF sp = {} THEN Len(t) + 1
                 ELSE CHOOSE i \in sp : \A j \in sp : i <= j
       IN  <<SubSeq(t, 1, e - 1)>> \o split_whitespace(SubSeq(t, e, Len(t)))

normalize(w) == [i \in 1..Len(w) |-> Lower(w[i])]

\* words(text): the whitespace-separated words, normalized, in text order.
clean_words(s) ==
  LET ws == split_whitespace(s) IN [i \in 1..Len(ws) |-> normalize(ws[i])]

word_grams(w) ==
  IF Len(w) < GramSize THEN <<>>
  ELSE [i \in 1..(Len(w) - GramSize + 1) |-> SubSeq(w, i, i + GramSize - 1)]

RECURSIVE Flatten(_)
Flatten(ss) == IF ss = <<>> THEN <<>> ELSE Head(ss) \o Flatten(Tail(ss))

\* grams(text): the n-grams of every normalized word, in text order.
gramify(s) ==
  LET ws == clean_words(s) IN Flatten([i \in 1..Len(ws) |-> word_grams(ws[i])])

(***************************************************************************)
(* serde_json values and documents.                                        *)
(***************************************************************************)
VString(s) == [kind |-> "string", str |-> s, elems |-> <<>>]
VNumber    == [kind |-> "number", str |-> <<>>, elems |-> <<>>]
VNull      == [kind |-> "null", str |-> <<>>, elems |-> <<>>]
VArray(es) == [kind |-> "array", str |-> <<>>, elems |-> es]
VObject(es) == [kind |-> "object", str |-> <<>>, elems |-> es]

is_string(v) == v.kind = "string"
is_array(v)  == v.kind = "array"
is_object(v) == v.kind = "object"

\* obj[prop]: Value::Null for a member the document does not have.
Member(obj, prop) == IF prop \in DOMAIN obj THEN obj[prop] ELSE VNull

\* Value::to_string and serde_json::from_str on the stored payload.
to_string(obj) == [json |-> obj]

parse_json(datastr) == datastr.json

\* The string elements of an array / string members of an object, each
\* followed by a space.
RECURSIVE push_strings(_)
push_strings(es) ==
  IF es = <<>> THEN <<>>
  ELSE (IF is_string(Head(es)) THEN Head(es).str \o <<" ">> ELSE <<>>)
       \o push_strings(Tail(es))

extract_value(value) ==
  IF is_string(value) THEN value.str \o <<" ">>
  ELSE IF is_array(value) THEN push_strings(value.elems)
  ELSE IF is_object(value) THEN push_strings(value.elems)
  ELSE <<>>

RECURSIVE extract_fields(_, _)
extract_fields(obj, fields) ==
  IF fields = <<>> THEN <<>>
  ELSE extract_value(Member(obj, Head(fields))) \o extract_fields(obj, Tail(fields))

(***************************************************************************)
(* HashMap operations.                                                     *)
(***************************************************************************)
EmptyMap == <<>>

contains_key(m, k) == k \in DOMAIN m

insert(m, k, v) == [x \in DOMAIN m \cup {k} |-> IF x = k THEN v ELSE m[x]]

remove_key(m, k) == [x \in DOMAIN m \ {k} |-> m[x]]

(***************************************************************************)
(* The Index and its operations.                                           *)
(***************************************************************************)
GramWeight == 1
WordWeight == 50

create(fields) ==
  [id_counter    |-> 0,
   items         |-> EmptyMap,
   token_scoring |-> EmptyMap,
   id_map        |-> EmptyMap,
   fields        |-> fields,
   query_times   |-> <<>>]

\* A variant of clear that forgets the identity map.
clear_keep_id_map(idx) ==
  [idx EXCEPT !.id_counter = 0,
              !.items = EmptyMap,
              !.token_scoring = EmptyMap]

\* A variant of clear that forgets the inverted index.
clear_keep_postings(idx) ==
  [idx EXCEPT !.id_counter = 0,
              !.items = EmptyMap,
              !.id_map = EmptyMap]

clear(idx) ==
  [idx EXCEPT !.id_counter = 0,
              !.items = EmptyMap,
              !.token_scoring = EmptyMap,
              !.id_map = EmptyMap]

\* A variant of strip_postings that drops every list that mentions iid.
strip_drop_lists(token_scoring, iid) ==
  [t \in {u \in DOMAIN token_scoring :
            \A k \in 1..Len(token_scoring[u]) : token_scoring[u][k][1] # iid}
     |-> token_scoring[t]]

\* A variant of strip_postings that leaves the emptied lists in the map.
strip_keep_empty(token_scoring, iid) ==
  [t \in DOMAIN token_scoring |->
     SelectSeq(token_scoring[t], LAMBDA x : x[1] # iid)]

\* value.retain(|x| x.0 != iid) on every postings list, then
\* token_scoring.retain(|_, x| x.len() > 0).
strip_postings(token_scoring, iid) ==
  LET kept(t) == SelectSeq(token_scoring[t], LAMBDA x : x[1] # iid)
  IN  [t \in {u \in DOMAIN token_scoring : Len(kept(u)) > 0} |-> kept(t)]

\* One pass of index_item: a posting (iid, weight) appended to the list of
\* every token, the list created when the token is new.
RECURSIVE push_postings(_, _, _, _)
push_postings(token_scoring, tokens, iid, weight) ==
  IF tokens = <<>> THEN token_scoring
  ELSE LET t == Head(tokens)
           ts == IF ~contains_key(token_scoring, t)
                 THEN insert(token_scoring, t, <<(<<iid, weight>>)>>)
                 ELSE [token_scoring EXCEPT ![t] = Append(@, <<iid, weight>>)]
       IN  push_postings(ts, Tail(tokens), iid, weight)

\* A variant of index_item that indexes the whole words only.
index_item_words_only(idx, iid, to_tokenize) ==
  LET words == sort_dedup(clean_words(to_tokenize))
  IN  [idx EXCEPT !.token_scoring =
         push_postings(idx.token_scoring, words, iid, WordWeight)]

index_item(idx, iid, to_tokenize) ==
  LET grams == sort_dedup(gramify(to_tokenize))
      words == sort_dedup(clean_words(to_tokenize))
      ts1   == push_postings(idx.token_scoring, grams, iid, GramWeight)
      ts2   == push_postings(ts1, words, iid, WordWeight)
  IN  [idx EXCEPT !.token_scoring = ts2]

\* A variant of add that does not advance the counter.
add_no_increment(idx, id, obj, to_tokenize) ==
  LET iid == idx.id_counter
      i1  == [idx EXCEPT !.id_map = insert(@, id, iid),
                         !.items = insert(@, iid, obj)]
  IN  index_item(i1, iid, to_tokenize)

\* id_counter is a u32; the model keeps it below MaxAdds, far from 2^32.
add(idx, id, obj, to_tokenize) ==
  LET iid == idx.id_counter
      i1  == [idx EXCEPT !.id_map = insert(@, id, iid),
                         !.id_counter = @ + 1,
                         !.items = insert(@, iid, obj)]
  IN  index_item(i1, iid, to_tokenize)

\* The outcome of a call: the index it leaves and what the caller gets.
\* status "panic" is the abort of an unwrap() on None: the call returns
\* nothing, and every unwrap of add_object and update precedes the first
\* mutation, so the index is as it was.
Outcome(idx, status, found, docs) ==
  [index |-> idx, status |-> status, found |-> found, docs |-> docs]

add_object(idx, obj) ==
  LET token_str == extract_fields(obj, idx.fields)
      idv       == Member(obj, "_id")
  IN  IF ~is_string(idv) THEN Outcome(idx, "panic", FALSE, <<>>)
      ELSE Outcome(add(idx, idv.str, to_string(obj), trim(token_str)),
                   "ok", FALSE, <<>>)

\* A variant of update that stores the payload and leaves the postings alone.
update_keep_index(idx, obj) ==
  LET idv == Member(obj, "_id")
  IN  IF ~is_string(idv) THEN Outcome(idx, "panic", FALSE, <<>>)
      ELSE IF ~contains_key(idx.id_map, idv.str)
      THEN Outcome(idx, "panic", FALSE, <<>>)
      ELSE LET iid == idx.id_map[idv.str]
           IN  Outcome([idx EXCEPT !.items = insert(@, iid, to_string(obj))],
                       "ok", FALSE, <<>>)

\* A variant of update that re-indexes without stripping the old postings.
update_no_strip(idx, obj) ==
  LET token_str == extract_fields(obj, idx.fields)
      idv       == Member(obj, "_id")
  IN  IF ~is_string(idv) THEN Outcome(idx, "panic", FALSE, <<>>)
      ELSE IF ~contains_key(idx.id_map, idv.str)
      THEN Outcome(idx, "panic", FALSE, <<>>)
      ELSE LET iid == idx.id_map[idv.str]
               i1  == [idx EXCEPT !.items = insert(@, iid, to_string(obj))]
           IN  Outcome(index_item(i1, iid, trim(token_str)), "ok", FALSE, <<>>)

update(idx, obj) ==
  LET token_str == extract_fields(obj, idx.fields)
      idv       == Member(obj, "_id")
  IN  IF ~is_string(idv) THEN Outcome(idx, "panic", FALSE, <<>>)
      ELSE IF ~contains_key(idx.id_map, idv.str)
      THEN Outcome(idx, "panic", FALSE, <<>>)
      ELSE LET iid == idx.id_map[idv.str]
               i1  == [idx EXCEPT
                         !.token_scoring = strip_postings(@, iid),
                         !.items = insert(@, iid, to_string(obj))]
           IN  Outcome(index_item(i1, iid, trim(token_str)), "ok", FALSE, <<>>)

\* A variant of remove that leaves the postings of the removed id in place.
remove_keep_postings(idx, id) ==
  IF ~contains_key(idx.id_map, id) THEN Outcome(idx, "ok", FALSE, <<>>)
  ELSE LET iid == idx.id_map[id]
       IN  Outcome([idx EXCEPT !.items = remove_key(@, iid),
                               !.id_map = remove_key(@, id)],
                   "ok", TRUE, <<>>)

\* A variant of remove that leaves the identity mapping in place.
remove_keep_id(idx, id) ==
  IF ~contains_key(idx.id_map, id) THEN Outcome(idx, "ok", FALSE, <<>>)
  ELSE LET iid == idx.id_map[id]
       IN  Outcome([idx EXCEPT !.items = remove_key(@, iid),
                               !.token_scoring = strip_postings(@, iid)],
                   "ok", TRUE, <<>>)

remove(idx, id) ==
  IF ~contains_key(idx.id_map, id) THEN Outcome(idx, "ok", FALSE, <<>>)
  ELSE LET iid == idx.id_map[id]
       IN  Outcome([idx EXCEPT !.items = remove_key(@, iid),
                               !.id_map = remove_key(@, id),
                               !.token_scoring = strip_postings(@, iid)],
                   "ok", TRUE, <<>>)

(***************************************************************************)
(* Fuzzy matcher (sublime_fuzzy): best_match(query, target) is None when   *)
(* the query's characters do not occur in the target in order; otherwise   *)
(* the best score over the alignments.  Case is ignored, and so is the     *)
(* query's whitespace.                                                     *)
(***************************************************************************)
BonusConsecutive == 8
PenaltyDistance == 4

NoMatch == [some |-> FALSE, score |-> 0]

fuzzy_chars(q) == normalize(SelectSeq(q, LAMBDA c : ~IsSpace(c)))

\* Every way to place q[k..] in t at increasing positions after `from`.
RECURSIVE alignments(_, _, _, _)
alignments(q, t, k, from) ==
  IF k > Len(q) THEN {<<>>}
  ELSE UNION {{<<p>> \o rest : rest \in alignments(q, t, k + 1, p)} :
              p \in {i \in (from + 1)..Len(t) : Lower(t[i]) = q[k]}}

RECURSIVE alignment_score(_, _)
alignment_score(ps, k) ==
  IF k > Len(ps) THEN 0
  ELSE (IF ps[k] = ps[k - 1] + 1 THEN BonusConsecutive
        ELSE 0 - PenaltyDistance * (ps[k] - ps[k - 1] - 1))
       + alignment_score(ps, k + 1)

best_match(query, target) ==
  LET q  == fuzzy_chars(query)
      as == IF q = <<>> THEN {} ELSE alignments(q, target, 1, 0)
  IN  IF as = {} THEN NoMatch
      ELSE LET best == CHOOSE a \in as :
                         \A b \in as : alignment_score(a, 2) >= alignment_score(b, 2)
           IN  [some |-> TRUE, score |-> alignment_score(best, 2)]

(***************************************************************************)
(* The query path.                                                         *)
(***************************************************************************)
\* Every order in which a HashMap can hand out the elements of S.
Orders(S) ==
  {f \in [1..Cardinality(S) -> S] : \A i, j \in DOMAIN f : f[i] = f[j] => i = j}

\* v.sort_by(|a, b| b.1.partial_cmp(&a.1)): stable, by score, descending.
insert_desc(sorted, x) ==
  LET k == Cardinality({i \in 1..Len(sorted) : sorted[i][2] >= x[2]})
  IN  SubSeq(sorted, 1, k) \o <<x>> \o SubSeq(sorted, k + 1, Len(sorted))

RECURSIVE sort_by_desc_from(_, _)
sort_by_desc_from(sorted, v) ==
  IF v = <<>> THEN sorted
  ELSE sort_by_desc_from(insert_desc(sorted, Head(v)), Tail(v))

sort_by_desc(v) == sort_by_desc_from(<<>>, v)

\* A variant of query_tokens that drops repeated query tokens.
query_tokens_dedup(query) == sort_dedup(gramify(query) \o clean_words(query))

\* The query's tokens: its n-grams, then its whole words, not deduplicated.
query_tokens(query) == gramify(query) \o clean_words(query)

\* *scores.entry(id.0).or_insert(0.0) += id.1 for every posting of a list.
RECURSIVE add_postings(_, _)
add_postings(scores, ids) ==
  IF ids = <<>> THEN scores
  ELSE LET id == Head(ids)
           sc == IF contains_key(scores, id[1])
                 THEN [scores EXCEPT ![id[1]] = @ + id[2]]
                 ELSE insert(scores, id[1], id[2])
       IN  add_postings(sc, Tail(ids))

RECURSIVE accumulate(_, _, _)
accumulate(scores, token_scoring, tokens) ==
  IF tokens = <<>> THEN scores
  ELSE LET token == Head(tokens)
           sc == IF contains_key(token_scoring, token)
                 THEN add_postings(scores, token_scoring[token])
                 ELSE scores
       IN  accumulate(sc, token_scoring, Tail(tokens))

token_scores(idx, query) == accumulate(EmptyMap, idx.token_scoring, query_tokens(query))

\* A variant of retain_threshold that drops a score equal to the threshold.
retain_threshold_strict(key_score_list, highest, d) ==
  SelectSeq(key_score_list, LAMBDA x : d * x[2] > highest)

\* key_score_list.retain(|x| x.1 >= highest / d)
retain_threshold(key_score_list, highest, d) ==
  SelectSeq(key_score_list, LAMBDA x : d * x[2] >= highest)

\* A variant of coarse_candidates whose comparator sorts ascending.
coarse_candidates_ascending(key_score_list) ==
  LET desc    == sort_by_desc(key_score_list)
      sorted  == [i \in 1..Len(desc) |-> desc[Len(desc) + 1 - i]]
      highest == sorted[1][2]
  IN  retain_threshold(sorted, highest, 2)

\* Sorted candidates, pruned against half the highest score.
coarse_candidates(key_score_list) ==
  LET sorted  == sort_by_desc(key_score_list)
      highest == sorted[1][2]
  IN  retain_threshold(sorted, highest, 2)

\* A variant of fuzzy_rerank that keeps an unmatched candidate with score 0.
RECURSIVE fuzzy_rerank_keep_unmatched(_, _, _)
fuzzy_rerank_keep_unmatched(idx, query, key_score_list) ==
  IF key_score_list = <<>> THEN <<>>
  ELSE LET id == Head(key_score_list)[1]
           value == parse_json(idx.items[id])
           super_string == extract_fields(value, idx.fields)
           fuzzy_match == best_match(query, super_string)
       IN  <<(<<id, fuzzy_match.score>>)>>
           \o fuzzy_rerank_keep_unmatched(idx, query, Tail(key_score_list))

\* The fuzzy loop: (id, score) of every candidate the matcher accepts.
RECURSIVE fuzzy_rerank(_, _, _)
fuzzy_rerank(idx, query, key_score_list) ==
  IF key_score_list = <<>> THEN <<>>
  ELSE LET id == Head(key_score_list)[1]
           value == parse_json(idx.items[id])
           super_string == extract_fields(value, idx.fields)
           fuzzy_match == best_match(query, super_string)
       IN  (IF fuzzy_match.some THEN <<(<<id, fuzzy_match.score>>)>> ELSE <<>>)
           \o fuzzy_rerank(idx, query, Tail(key_score_list))

\* The second filter (lines 205-206) acts on the coarse list only.
second_filter(key_score_list) ==
  retain_threshold(key_score_list, key_score_list[1][2], 4)

\* A variant of key_score_list_for whose second filter reads and prunes the
\* fuzzy-scored list instead of the candidate list.
key_score_list_for_filter_ranked(idx, query, scores, order) ==
  LET ksl == [i \in 1..Len(order) |-> <<order[i], scores[order[i]]>>]
  IN  IF Len(ksl) = 0
      THEN [panic |-> FALSE, ranked |-> <<>>, coarse |-> <<>>, leftover |-> <<>>]
      ELSE LET coarse == coarse_candidates(ksl)
               ranked == sort_by_desc(fuzzy_rerank(idx, query, coarse))
           IN  IF \E i \in 1..Len(coarse) : ~contains_key(idx.items, coarse[i][1])
                  \/ Len(ranked) = 0
               THEN [panic |-> TRUE, ranked |-> <<>>, coarse |-> coarse,
                     leftover |-> <<>>]
               ELSE [panic |-> FALSE,
                     ranked |-> second_filter(ranked),
                     coarse |-> coarse,
                     leftover |-> coarse]

\* The rest of get_key_score_list once the score map has been filled, for
\* one iteration order of the map: [panic, ranked, coarse, leftover].  It
\* aborts when a candidate has no payload (line 189) and when the candidate
\* list is empty where line 205 reads its first element.
key_score_list_for(idx, query, scores, order) ==
  LET ksl == [i \in 1..Len(order) |-> <<order[i], scores[order[i]]>>]
  IN  IF Len(ksl) = 0
      THEN [panic |-> FALSE, ranked |-> <<>>, coarse |-> <<>>, leftover |-> <<>>]
      ELSE LET coarse == coarse_candidates(ksl)
           IN  IF \E i \in 1..Len(coarse) : ~contains_key(idx.items, coarse[i][1])
                  \/ Len(coarse) = 0
               THEN [panic |-> TRUE, ranked |-> <<>>, coarse |-> coarse,
                     leftover |-> <<>>]
               ELSE [panic |-> FALSE,
                     ranked |-> sort_by_desc(fuzzy_rerank(idx, query, coarse)),
                     coarse |-> coarse,
                     leftover |-> second_filter(coarse)]

\* Every result get_key_score_list can give.
get_key_score_list(idx, query) ==
  LET scores == token_scores(idx, query)
  IN  {key_score_list_for(idx, query, scores, order) :
         order \in Orders(DOMAIN scores)}

\* A variant of search that tests the untrimmed query for emptiness.
search_untrimmed(idx, original_query) ==
  LET query == trim(original_query) IN
  IF Len(original_query) = 0
  THEN {Outcome(idx, "ok", FALSE, [i \in 1..Len(order) |-> idx.items[order[i]]]) :
          order \in Orders(DOMAIN idx.items)}
  ELSE {IF r.panic THEN Outcome(idx, "panic", FALSE, <<>>)
        ELSE Outcome(idx, "ok", FALSE,
                     [i \in 1..Len(r.ranked) |-> idx.items[r.ranked[i][1]]]) :
          r \in get_key_score_list(idx, query)}

\* Every outcome search can have.
search(idx, original_query) ==
  LET query == trim(original_query) IN
  IF Len(query) = 0
  THEN {Outcome(idx, "ok", FALSE, [i \in 1..Len(order) |-> idx.items[order[i]]]) :
          order \in Orders(DOMAIN idx.items)}
  ELSE {IF r.panic THEN Outcome(idx, "panic", FALSE, <<>>)
        ELSE Outcome(idx, "ok", FALSE,
                     [i \in 1..Len(r.ranked) |-> idx.items[r.ranked[i][1]]]) :
          r \in get_key_score_list(idx, query)}

(***************************************************************************)
(* The calls the model makes: documents, external ids and queries.         *)
(***************************************************************************)
IdX == <<"x">>
IdY == <<"y">>
ExtIds == {IdX, IdY}

TextAb     == <<"a", "b">>
TextAbcd   == <<"a", "b", "c", "d">>
TextAbBcCd == <<"a", "b", " ", "b", "c", " ", "c", "d">>
TextCapAb  == <<"A", "b">>
TextCd     == <<"c", "d">>
TextBc     == <<"b", "c">>

Doc(id, title) == [_id |-> VString(id), title |-> VString(title)]

\* {"_id": id, "title": "Ab", "tags": ["cd", 7]}
DocTagged(id) ==
  [_id |-> VString(id), title |-> VString(TextCapAb),
   tags |-> VArray(<<VString(TextCd), VNumber>>)]

\* A document without _id, and one whose _id is a number.
DocNoId == [title |-> VString(TextAb)]
DocNumId == [_id |-> VNumber, title |-> VString(TextCd)]

GoodDocs ==
  {Doc(IdX, TextAbcd), DocTagged(IdX),
   Doc(IdY, TextAbBcCd), Doc(IdY, TextAb), DocTagged(IdY)}

Docs == GoodDocs \cup {DocNoId, DocNumId}

Queries ==
  {<<>>, <<" ", " ">>, TextAb, TextBc, TextAbcd,
   <<" ", "a", "b", " ", "a", "b">>}

Fields == <<"title", "tags">>

NoCall == [op |-> "create", id |-> <<>>, obj |-> <<>>, query |-> <<>>]
NoUpdate == [valid |-> FALSE, iid |-> 0, old |-> <<>>]

Result(r) == [status |-> r.status, found |-> r.found, docs |-> r.docs]

\* A panic aborts the process: no call follows it.
Aborted == ret.status = "panic"

Init ==
  /\ index = create(Fields)
  /\ call = NoCall
  /\ ret = [status |-> "ok", found |-> FALSE, docs |-> <<>>]
  /\ assigned = {}
  /\ issued = {}
  /\ removed = {}
  /\ fresh = {}
  /\ updated = NoUpdate

AddObject(obj) ==
  /\ ~Aborted
  /\ index.id_counter < MaxAdds
  /\ LET r == add_object(index, obj) IN
     /\ index' = r.index
     /\ call' = [op |-> "add_object", id |-> <<>>, obj |-> obj, query |-> <<>>]
     /\ ret' = Result(r)
     /\ IF r.status = "ok"
        THEN /\ assigned' = assigned \cup {index.id_counter}
             /\ issued' = issued \cup {index.id_counter}
             /\ removed' = removed \ {obj["_id"].str}
             /\ fresh' = fresh \cup {index.id_counter}
             /\ updated' = NoUpdate
        ELSE UNCHANGED <<assigned, issued, removed, fresh, updated>>

Update(obj) ==
  /\ ~Aborted
  /\ LET r == update(index, obj) IN
     /\ index' = r.index
     /\ call' = [op |-> "update", id |-> <<>>, obj |-> obj, query |-> <<>>]
     /\ ret' = Result(r)
     /\ IF r.status = "ok"
        THEN LET iid == index.id_map[obj["_id"].str] IN
             /\ fresh' = fresh \ {iid}
             /\ updated' = [valid |-> TRUE, iid |-> iid,
                            old |-> index.items[iid]]
        ELSE UNCHANGED <<fresh, updated>>
     /\ UNCHANGED <<assigned, issued, removed>>

Remove(id) ==
  /\ ~Aborted
  /\ LET r == remove(index, id) IN
     /\ index' = r.index
     /\ call' = [op |-> "remove", id |-> id, obj |-> <<>>, query |-> <<>>]
     /\ ret' = Result(r)
     /\ IF r.found
        THEN /\ removed' = removed \cup {id}
             /\ fresh' = fresh \ {index.id_map[id]}
             /\ updated' = NoUpdate
        ELSE UNCHANGED <<removed, fresh, updated>>
     /\ UNCHANGED <<assigned, issued>>

Clear ==
  /\ ~Aborted
  /\ index' = clear(index)
  /\ call' = [op |-> "clear", id |-> <<>>, obj |-> <<>>, query |-> <<>>]
  /\ ret' = [status |-> "ok", found |-> FALSE, docs |-> <<>>]
  /\ issued' = {}
  /\ fresh' = {}
  /\ updated' = NoUpdate
  /\ UNCHANGED <<assigned, removed>>

Search(query) ==
  /\ ~Aborted
  /\ \E r \in search(index, query) :
       /\ index' = r.index
       /\ call' = [op |-> "search", id |-> <<>>, obj |-> <<>>, query |-> query]
       /\ ret' = Result(r)
  /\ UNCHANGED <<assigned, issued, removed, fresh, updated>>

Next ==
  \/ \E obj \in Docs : AddObject(obj)
  \/ \E obj \in Docs : Update(obj)
  \/ \E id \in ExtIds : Remove(id)
  \/ Clear
  \/ \E query \in Queries : Search(query)

Spec == Init /\ [][Next]_vars

(***************************************************************************)
(* Properties.                                                             *)
(***************************************************************************)
ExtIdOf(payload) == parse_json(payload)["_id"].str

\* The internal ids that occur in some postings list.
PostedIds(idx) ==
  UNION {{idx.token_scoring[t][i][1] : i \in 1..Len(idx.token_scoring[t])} :
           t \in DOMAIN idx.token_scoring}

\* C1: after remove(id) returned true and while no add_object has used id
\* again, no search returns a document whose external id is id.
C1_RemovedNeverReturned ==
  (call.op = "search" /\ ret.status = "ok") =>
    \A i \in 1..Len(ret.docs) : ExtIdOf(ret.docs[i]) \notin removed

\* C2: id_map and items are in one-to-one correspondence: every key of items
\* is the value of exactly one external id, and every value of id_map is a
\* key of items.
C2_IdentityBijection ==
  /\ \A iid \in DOMAIN index.items :
       Cardinality({id \in DOMAIN index.id_map : index.id_map[id] = iid}) = 1
  /\ \A id \in DOMAIN index.id_map : index.id_map[id] \in DOMAIN index.items

\* The call just made is add_object / update with this kind of document.
AddStep == call'.op = "add_object"
UpdateStep == call'.op = "update"
RemoveStep == call'.op = "remove"
HasStringId(obj) == is_string(Member(obj, "_id"))

\* C3: add_object with an external id that is already mapped fails with
\* DuplicateIdentifier and leaves the index unchanged.
C3_DuplicateRejected ==
  [][(AddStep /\ HasStringId(call'.obj)
        /\ contains_key(index.id_map, call'.obj["_id"].str))
     => (ret'.status = "DuplicateIdentifier" /\ index' = index)]_vars

\* The internal id the add_object just made handed out.
NewIid == index'.id_map[call'.obj["_id"].str]

\* C4 (as claimed): every add_object is assigned an internal id strictly
\* greater than every internal id assigned before it, also after a clear.
C4_NeverReused ==
  [][(AddStep /\ ret'.status = "ok") => \A j \in assigned : NewIid > j]_vars

\* C4 (amended): every add_object is assigned an internal id strictly greater
\* than every internal id assigned since create or the last clear, and the
\* counter moves past it.
C4_IncreasingSinceClear ==
  [][(AddStep /\ ret'.status = "ok")
     => /\ \A j \in issued : NewIid > j
        /\ index'.id_counter > NewIid]_vars

C4_Witness ==
  /\ call.op = "add_object" /\ ret.status = "ok"
  /\ Cardinality(issued) = 2
  /\ removed # {}

\* C5: remove returns true exactly when the id is mapped; when it is not
\* mapped nothing changes; after it the id is not mapped, so a second remove
\* of the same id returns false.
C5_RemoveFound ==
  [][RemoveStep
     => /\ ret'.status = "ok"
        /\ ret'.found = contains_key(index.id_map, call'.id)
        /\ (~contains_key(index.id_map, call'.id) => index' = index)
        /\ ~contains_key(index'.id_map, call'.id)
        /\ (call.op = "remove" /\ call.id = call'.id /\ ret.found
              => ~ret'.found)]_vars

C5_Witness ==
  /\ call.op = "remove" /\ ~ret.found
  /\ call.id \in removed
  /\ DOMAIN index.items # {}

\* C6: no token ever has an empty postings list, and after a remove that
\* returned true the internal id the id mapped to is in no postings list and
\* not a key of items, and the id is not a key of id_map.
NoEmptyPostings(idx) ==
  \A t \in DOMAIN idx.token_scoring : Len(idx.token_scoring[t]) > 0

C6_RemoveErases ==
  /\ [](NoEmptyPostings(index))
  /\ [][(RemoveStep /\ ret'.found)
        => /\ index.id_map[call'.id] \notin PostedIds(index')
           /\ index.id_map[call'.id] \notin DOMAIN index'.items
           /\ call'.id \notin DOMAIN index'.id_map
           /\ NoEmptyPostings(index')]_vars

C6_Witness ==
  /\ call.op = "remove" /\ ret.found
  /\ DOMAIN index.items # {}
  /\ Cardinality(DOMAIN index.token_scoring) < 4

\* C7: update with a missing, non-string or unknown _id, and add_object with
\* a missing or non-string _id, return MissingIdentifier / UnknownIdentifier
\* to the caller and leave the index unchanged.
C7_FailureReturned ==
  [][((UpdateStep /\ (~HasStringId(call'.obj)
                       \/ ~contains_key(index.id_map, call'.obj["_id"].str)))
      \/ (AddStep /\ ~HasStringId(call'.obj)))
     => /\ ret'.status \in {"MissingIdentifier", "UnknownIdentifier"}
        /\ index' = index]_vars

\* The text of a stored payload as it was indexed, and its tokens.
TextOf(payload) == trim(extract_fields(parse_json(payload), index.fields))
TokensOf(payload) ==
  Range(gramify(TextOf(payload))) \cup Range(clean_words(TextOf(payload)))

SearchDone == call.op = "search" /\ ret.status = "ok"
Returned(payload) == payload \in Range(ret.docs)

\* The accumulated token-overlap score of an internal id for the last query.
ScoreOf(iid) ==
  LET scores == token_scores(index, trim(call.query))
  IN  IF iid \in DOMAIN scores THEN scores[iid] ELSE 0

\* No candidate scores more than twice iid: iid is not pruned.
SurvivesPruning(iid) == \A j \in DOMAIN index.items : ScoreOf(j) <= 2 * ScoreOf(iid)

\* C8 (as claimed): search(T) returns every document that was added with T
\* among the tokens of its text and has not since been removed or updated.
C8_AddThenSearch ==
  SearchDone =>
    \A iid \in fresh :
      call.query \in TokensOf(index.items[iid]) => Returned(index.items[iid])

\* C8 (amended): search(T) returns every such document that coarse pruning
\* keeps, i.e. unless some stored document scores more than twice its score.
C8_AddThenSearchUnlessPruned ==
  SearchDone =>
    \A iid \in fresh :
      (call.query \in TokensOf(index.items[iid]) /\ SurvivesPruning(iid))
        => Returned(index.items[iid])

C8_Witness ==
  /\ SearchDone
  /\ C2_IdentityBijection
  /\ \E i, j \in fresh :
       /\ call.query \in TokensOf(index.items[i])
       /\ ScoreOf(i) < ScoreOf(j)
       /\ Returned(index.items[i])

\* The last call that changed the index was an update that replaced the
\* text of a document; T is the query of the search made after it.
AfterUpdate ==
  /\ SearchDone
  /\ updated.valid
  /\ TextOf(updated.old) # TextOf(index.items[updated.iid])
OtherTokens(iid) ==
  UNION {TokensOf(index.items[j]) : j \in DOMAIN index.items \ {iid}}
OldOnly(T) ==
  /\ T \in TokensOf(updated.old)
  /\ T \notin TokensOf(index.items[updated.iid])
  /\ T \notin OtherTokens(updated.iid)
SameInternalId ==
  updated.valid =>
    /\ updated.iid \in DOMAIN index.items
    /\ index.id_map[ExtIdOf(index.items[updated.iid])] = updated.iid
    /\ ExtIdOf(updated.old) = ExtIdOf(index.items[updated.iid])

\* C9 (as claimed): after an update, search for a token only the old value
\* had does not return the document, search for a token of the new value
\* returns the updated payload, and the internal id is the same.
C9_UpdateChangesContent ==
  /\ SameInternalId
  /\ AfterUpdate =>
       /\ OldOnly(call.query) => ~Returned(index.items[updated.iid])
       /\ call.query \in TokensOf(index.items[updated.iid])
            => Returned(index.items[updated.iid])

\* C9 (amended): the old-only token no longer returns the document when no
\* n-gram or word of it is a token of the new value; a token of the new value
\* returns the updated payload unless coarse pruning drops it; the internal
\* id is the same.
C9_UpdateChangesContentAmended ==
  /\ SameInternalId
  /\ AfterUpdate =>
       /\ (OldOnly(call.query)
             /\ Range(query_tokens(call.query))
                  \cap TokensOf(index.items[updated.iid]) = {})
            => ~Returned(index.items[updated.iid])
       /\ (call.query \in TokensOf(index.items[updated.iid])
             /\ SurvivesPruning(updated.iid))
            => Returned(index.items[updated.iid])

C9_Witness ==
  /\ AfterUpdate
  /\ OldOnly(call.query)
  /\ Range(query_tokens(call.query)) \cap TokensOf(index.items[updated.iid]) = {}
  /\ ~Returned(index.items[updated.iid])
  /\ Cardinality(DOMAIN index.items) = 2

\* C10: search with an empty or whitespace-only query returns exactly the
\* multiset of the payloads in items.
BagOfSeq(v) == [x \in Range(v) |-> Cardinality({i \in DOMAIN v : v[i] = x})]

C10_EmptyQueryReturnsAll ==
  (call.op = "search" /\ trim(call.query) = <<>>) =>
    /\ ret.status = "ok"
    /\ BagOfSeq(ret.docs) = BagOfSeq(index.items)

C10_Witness ==
  /\ call.op = "search"
  /\ call.query = <<" ", " ">>
  /\ Len(ret.docs) = 2
  /\ ret.docs[1] = ret.docs[2]

\* The query as the scoring path sees it, and whether search took that path.
QueryOf == trim(call.query)
Scored == call.op = "search" /\ QueryOf # <<>>

\* C11: search never aborts, whatever calls came before it: every internal id
\* in a postings list has a payload in items.  A query none of whose tokens is
\* a key of the inverted index returns the empty list.
C11_SearchNeverFails ==
  /\ PostedIds(index) \subseteq DOMAIN index.items
  /\ call.op = "search" => ret.status = "ok"
  /\ (Scored /\ Range(query_tokens(QueryOf)) \cap DOMAIN index.token_scoring = {})
       => ret.docs = <<>>

C11_Witness ==
  /\ Scored
  /\ ret.status = "ok"
  /\ removed # {}
  /\ index.items # EmptyMap
  /\ Range(query_tokens(QueryOf)) \cap DOMAIN index.token_scoring = {}
  /\ ret.docs = <<>>

\* The ids one run of get_key_score_list hands to the fuzzy matcher.
CoarseIds(r) == {r.coarse[i][1] : i \in 1..Len(r.coarse)}

\* C12: a candidate whose accumulated score is strictly less than half the
\* highest accumulated score is not handed to the fuzzy matcher and is not in
\* the result; every candidate with at least half the highest score, exactly
\* half included, is handed to the fuzzy matcher.
C12_CoarsePruning ==
  (Scored /\ ret.status = "ok") =>
    LET scores == token_scores(index, QueryOf)
        Low(iid) == \E j \in DOMAIN scores : 2 * scores[iid] < scores[j]
    IN  \A r \in get_key_score_list(index, QueryOf) :
          \A iid \in DOMAIN scores :
            /\ Low(iid) => (iid \notin CoarseIds(r) /\ ~Returned(index.items[iid]))
            /\ ~Low(iid) => iid \in CoarseIds(r)

C12_Witness ==
  /\ Scored
  /\ ret.status = "ok"
  /\ Len(ret.docs) = 1
  /\ \E i, j \in DOMAIN index.items :
       /\ 0 < ScoreOf(i)
       /\ 2 * ScoreOf(i) < ScoreOf(j)
       /\ ~Returned(index.items[i])
       /\ Returned(index.items[j])

\* What the fuzzy matcher says of a stored document for the last query, and
\* the candidates that pass the pruning and are matched.
FuzzyOf(iid) ==
  best_match(QueryOf, extract_fields(parse_json(index.items[iid]), index.fields))
Matched ==
  {iid \in DOMAIN index.items :
     ScoreOf(iid) > 0 /\ SurvivesPruning(iid) /\ FuzzyOf(iid).some}

\* C13: for a non-empty query the result is the payloads of the pruning
\* survivors the fuzzy matcher matched, each once, in non-increasing order of
\* fuzzy score; an unmatched survivor is absent.
C13_RankedByFuzzyScore ==
  (Scored /\ ret.status = "ok") =>
    \E p \in Orders(Matched) :
      /\ ret.docs = [i \in 1..Len(p) |-> index.items[p[i]]]
      /\ \A i, j \in 1..Len(p) :
           i < j => FuzzyOf(p[i]).score >= FuzzyOf(p[j]).score

C13_Witness ==
  /\ Scored
  /\ ret.status = "ok"
  /\ Len(ret.docs) = 2
  /\ \E i, j \in Matched :
       /\ FuzzyOf(i).score > FuzzyOf(j).score
       /\ ret.docs = <<index.items[i], index.items[j]>>

\* For a query of one term: the stored document has the term among its whole
\* words, or is a candidate without it (all its matches are n-gram postings).
QueryWords == clean_words(QueryOf)
WholeWord(iid) == QueryWords[1] \in Range(clean_words(TextOf(index.items[iid])))
NGramOnly(iid) ==
  /\ ScoreOf(iid) > 0
  /\ ~WholeWord(iid)
  /\ \A t \in Range(query_tokens(QueryOf)) \cap DOMAIN index.token_scoring :
       \A k \in 1..Len(index.token_scoring[t]) :
         index.token_scoring[t][k][1] = iid
           => index.token_scoring[t][k][2] = GramWeight
PlacesOf(payload) == {k \in 1..Len(ret.docs) : ret.docs[k] = payload}

FuzzyOfPayload(payload) ==
  best_match(QueryOf, extract_fields(parse_json(payload), index.fields))
ClearStep == call'.op = "clear"

\* C15: clear sets id_counter to 0 and empties items, token_scoring and
\* id_map; no operation changes fields; a search that directly follows a
\* clear returns the empty list, whatever the query.
C15_ClearFrame ==
  [][/\ index'.fields = index.fields
     /\ ClearStep => /\ index'.id_counter = 0
                     /\ index'.items = EmptyMap
                     /\ index'.token_scoring = EmptyMap
                     /\ index'.id_map = EmptyMap
     /\ (call.op = "clear" /\ call'.op = "search")
          => (ret'.status = "ok" /\ ret'.docs = <<>>)]_vars

C15_Witness ==
  /\ Scored
  /\ ret.status = "ok"
  /\ ret.docs = <<>>
  /\ assigned # {}
  /\ issued = {}
  /\ index = create(Fields)

\* The postings of iid under token t, in list order, and the postings the
\* stored payload calls for: (iid, 1) when t is an n-gram of its text and
\* (iid, 50) when t is one of its whole words.
PostingsOf(idx, t, iid) ==
  IF t \in DOMAIN idx.token_scoring
  THEN SelectSeq(idx.token_scoring[t], LAMBDA x : x[1] = iid)
  ELSE <<>>
PostingsDue(payload, t, iid) ==
  (IF t \in Range(gramify(TextOf(payload))) THEN <<(<<iid, GramWeight>>)>> ELSE <<>>)
  \o (IF t \in Range(clean_words(TextOf(payload))) THEN <<(<<iid, WordWeight>>)>> ELSE <<>>)
StoreConsistent ==
  \A iid \in DOMAIN index.items :
    \A t \in DOMAIN index.token_scoring \cup TokensOf(index.items[iid]) :
      PostingsOf(index, t, iid) = PostingsDue(index.items[iid], t, iid)
NoRepeatedPosting ==
  \A t \in DOMAIN index.token_scoring :
    \A i, k \in 1..Len(index.token_scoring[t]) :
      index.token_scoring[t][i] = index.token_scoring[t][k] => i = k

\* C16: in every state the postings of each stored internal id are exactly
\* one (id, 1) under each n-gram and one (id, 50) under each whole word of the
\* text of its stored payload; no list holds the same posting twice; add
\* indexes an id that holds no postings, and update leaves no posting of the
\* old text.
C16_IndexStoreConsistent ==
  /\ [](StoreConsistent /\ NoRepeatedPosting)
  /\ [][(AddStep /\ ret'.status = "ok") => NewIid \notin PostedIds(index)]_vars

C16_Witness ==
  /\ call.op = "update"
  /\ ret.status = "ok"
  /\ updated.valid
  /\ TextOf(updated.old) # TextOf(index.items[updated.iid])
  /\ TokensOf(updated.old) \cap TokensOf(index.items[updated.iid]) # {}
  /\ Cardinality(DOMAIN index.items) = 2
  /\ StoreConsistent

\* The weights of a list of postings added up, and the weights of iid's
\* postings added up over every occurrence of every token of a list.
RECURSIVE WeightSum(_)
WeightSum(postings) ==
  IF postings = <<>> THEN 0 ELSE Head(postings)[2] + WeightSum(Tail(postings))
RECURSIVE OccurrenceSum(_, _)
OccurrenceSum(tokens, iid) ==
  IF tokens = <<>> THEN 0
  ELSE WeightSum(PostingsOf(index, Head(tokens), iid))
         + OccurrenceSum(Tail(tokens), iid)

\* C17: the accumulated score of an internal id is the sum, over every
\* occurrence of every token in the query's n-gram list followed by its
\* whole-word list, of the weights of the id's postings under that token: a
\* token that occurs k times counts k times, and a token that is both an
\* n-gram and a whole word of the query counts once per list.
C17_TokensNotDeduplicated ==
  (Scored /\ ret.status = "ok") =>
    LET scores == token_scores(index, QueryOf)
        tokens == gramify(QueryOf) \o clean_words(QueryOf)
    IN  /\ DOMAIN scores = {iid \in PostedIds(index) : OccurrenceSum(tokens, iid) > 0}
        /\ \A iid \in DOMAIN scores : scores[iid] = OccurrenceSum(tokens, iid)

C17_Witness ==
  /\ Scored
  /\ ret.status = "ok"
  /\ Len(gramify(QueryOf)) = 2
  /\ gramify(QueryOf) = clean_words(QueryOf)
  /\ gramify(QueryOf)[1] = gramify(QueryOf)[2]
  /\ \E iid \in DOMAIN index.items :
       ScoreOf(iid) = 4 * (GramWeight + WordWeight)

\* get_key_score_list without lines 205-206, for one iteration order.
key_score_list_without_second_filter(idx, query, scores, order) ==
  LET ksl == [i \in 1..Len(order) |-> <<order[i], scores[order[i]]>>]
  IN  IF Len(ksl) = 0
      THEN [panic |-> FALSE, ranked |-> <<>>]
      ELSE LET coarse == coarse_candidates(ksl)
           IN  IF \E i \in 1..Len(coarse) : ~contains_key(idx.items, coarse[i][1])
               THEN [panic |-> TRUE, ranked |-> <<>>]
               ELSE [panic |-> FALSE,
                     ranked |-> sort_by_desc(fuzzy_rerank(idx, query, coarse))]

\* C18: the second threshold filter changes nothing that is returned: for
\* every iteration order get_key_score_list gives the ranked list it gives
\* without that step, the step does not abort (the candidate list it reads is
\* not empty when it is reached), and search returns the payloads of such a
\* list.
C18_SecondFilterNoEffect ==
  (Scored /\ ret.status = "ok") =>
    LET scores == token_scores(index, QueryOf)
        with(order) == key_score_list_for(index, QueryOf, scores, order)
        without(order) ==
          key_score_list_without_second_filter(index, QueryOf, scores, order)
    IN  /\ \A order \in Orders(DOMAIN scores) :
             /\ with(order).panic = without(order).panic
             /\ with(order).ranked = without(order).ranked
             /\ DOMAIN scores # {} => Len(with(order).coarse) > 0
        /\ \E order \in Orders(DOMAIN scores) :
             ret.docs = [i \in 1..Len(without(order).ranked) |->
                           index.items[without(order).ranked[i][1]]]

C18_Witness ==
  /\ Scored
  /\ ret.status = "ok"
  /\ Len(ret.docs) = 1
  /\ \E r \in get_key_score_list(index, QueryOf) :
       /\ Len(r.coarse) = 2
       /\ Len(r.ranked) = 1
       /\ r.leftover = r.coarse

\* C19: every internal id in a postings list is a key of items, every value
\* of id_map is a key of items, and every internal id in items, id_map or a
\* postings list is strictly less than id_counter.
C19_ReferentialIntegrity ==
  LET MappedIds == {index.id_map[id] : id \in DOMAIN index.id_map} IN
  /\ PostedIds(index) \subseteq DOMAIN index.items
  /\ MappedIds \subseteq DOMAIN index.items
  /\ \A iid \in DOMAIN index.items \cup MappedIds \cup PostedIds(index) :
       iid < index.id_counter

C19_Witness ==
  /\ call.op = "remove"
  /\ ret.found
  /\ index.id_counter = 2
  /\ Cardinality(DOMAIN index.items) = 1
  /\ DOMAIN index.id_map # {}
  /\ PostedIds(index) = DOMAIN index.items

\* The step is a remove that found its id or an update that returned; the
\* external id it names and the internal id that maps to.
TouchedExt == IF call'.op = "remove" THEN call'.id ELSE call'.obj["_id"].str
FrameStep ==
  /\ \/ RemoveStep /\ ret'.found
     \/ UpdateStep /\ ret'.status = "ok"
  /\ contains_key(index.id_map, TouchedExt)
ListOf(idx, t) ==
  IF t \in DOMAIN idx.token_scoring THEN idx.token_scoring[t] ELSE <<>>
OthersOf(postings, iid) == SelectSeq(postings, LAMBDA x : x[1] # iid)

\* C20: a remove that found its id and an update that returned change only
\* the entries of the internal id the external id maps to: every other
\* internal id keeps its payload, every other external id its mapping, and
\* under every token the postings of the other ids stay the same list, in the
\* same order; id_counter is unchanged, and update leaves id_map unchanged.
C20_RemoveUpdateFrame ==
  [][FrameStep =>
       LET iid == index.id_map[TouchedExt] IN
       /\ \A j \in (DOMAIN index.items \cup DOMAIN index'.items) \ {iid} :
            /\ j \in DOMAIN index.items \cap DOMAIN index'.items
            /\ index'.items[j] = index.items[j]
       /\ \A e \in (DOMAIN index.id_map \cup DOMAIN index'.id_map) \ {TouchedExt} :
            /\ e \in DOMAIN index.id_map \cap DOMAIN index'.id_map
            /\ index'.id_map[e] = index.id_map[e]
       /\ \A t \in DOMAIN index.token_scoring \cup DOMAIN index'.token_scoring :
            OthersOf(ListOf(index', t), iid) = OthersOf(ListOf(index, t), iid)
       /\ index'.id_counter = index.id_counter
       /\ UpdateStep => index'.id_map = index.id_map]_vars

C20_Witness ==
  /\ call.op = "update"
  /\ ret.status = "ok"
  /\ updated.valid
  /\ TextOf(updated.old) # TextOf(index.items[updated.iid])
  /\ \E j \in DOMAIN index.items \ {updated.iid} :
       /\ TokensOf(index.items[j]) \cap TokensOf(updated.old) # {}
       /\ TokensOf(index.items[j]) \cap TokensOf(index.items[updated.iid]) # {}
       /\ ExtIdOf(index.items[j]) # ExtIdOf(updated.old)

====
